---- MODULE Spec2Model ----
(***************************************************************************)
(* Hyperparameter grid search over a random forest classifier              *)
(* (wine_classification_hyperparameter_search_v4.py): the task graph of    *)
(* training_workflow, the grid generator, the data splitter, the model     *)
(* selection and the task cache declared on every task.                    *)
(***************************************************************************)
EXTENDS Integers, Sequences, FiniteSets, TLC

VARIABLES
    search_space,      \* the workflow input: SearchSpace(max_depth, max_features, n_estimators)
    node,              \* status of every task node of training_workflow
    hyperparameters,   \* output of create_search_grid
    error,             \* exception that ended a task ("" when none)
    data,              \* output of get_data: row id -> target class
    X_train,           \* outputs of split_data, as sets of row ids
    X_val,
    X_test,
    units,             \* the train_model units of the map task, one per grid element
    completion_order,  \* indexes of the units in the order they completed
    models,            \* output of the map task
    best_index,        \* best_index of compare_model_results (0 before it is set)
    best_model,        \* output of compare_model_results
    cache_store,       \* the task cache: key -> stored output
    invocations        \* the cached-task invocations made so far, in order

vars == <<search_space, node, hyperparameters, error, data, X_train, X_val, X_test,
          units, completion_order, models, best_index, best_model, cache_store,
          invocations>>

gridVars  == <<search_space, hyperparameters>>
splitVars == <<data, X_train, X_val, X_test>>
mapVars   == <<units, completion_order, models>>
bestVars  == <<best_index, best_model>>
cacheVars == <<cache_store, invocations>>

----------------------------------------------------------------------------
(* Bounds of the model *)

MaxCand == 2          \* longest candidate list of a hyperparameter
MaxUnits == 4         \* largest grid the workflow is run on
MaxRows == 7          \* largest dataset handed to split_data
MaxModels == 4        \* longest model list handed to compare_model_results
MaxScore == 2         \* validation scores handed to compare_model_results are 0..MaxScore
MaxTrainedScore == 1  \* validation scores of the models trained in the workflow
MaxInvocations == 3   \* cached-task invocations per cache store

----------------------------------------------------------------------------
(* Small helpers *)

SeqsUpTo(S, n) == UNION {[1..k -> S] : k \in 0..n}

Range(s) == {s[i] : i \in DOMAIN s}

NoHyperparameters == [max_depth |-> 0, max_features |-> "", n_estimators |-> 0]

\* the value of a model variable that holds no model yet
NoModel == [hyperparameters |-> NoHyperparameters, score |-> -1, predict_raises |-> FALSE]

----------------------------------------------------------------------------
(* create_search_grid *)

\* the fields of SearchSpace, in declaration order
SearchSpaceKeys == <<"max_depth", "max_features", "n_estimators">>

MaxDepthValues == {50, 100}
MaxFeaturesValues == {"None", "sqrt"}
NEstimatorsValues == {100, 2000}

SearchSpaces ==
    [max_depth : SeqsUpTo(MaxDepthValues, MaxCand),
     max_features : SeqsUpTo(MaxFeaturesValues, MaxCand),
     n_estimators : SeqsUpTo(NEstimatorsValues, MaxCand)]

\* Hyperparameters(**dict(zip(keys, combination)))
Hyperparameters(combination) ==
    [max_depth |-> combination[1],
     max_features |-> combination[2],
     n_estimators |-> combination[3]]

\* a mis-nested step of the product: the new pool varies slowest
ProductStepPoolOuter(result, pool) ==
    [n \in 1..(Len(result) * Len(pool)) |->
        Append(result[((n - 1) % Len(result)) + 1], pool[((n - 1) \div Len(result)) + 1])]

\* one step of itertools.product: [x + [y] for x in result for y in pool]
ProductStep(result, pool) ==
    [n \in 1..(Len(result) * Len(pool)) |->
        Append(result[((n - 1) \div Len(pool)) + 1], pool[((n - 1) % Len(pool)) + 1])]

\* itertools.product(*pools): result = [[]]; for pool in pools: result = step(result, pool)
RECURSIVE product(_)
product(pools) ==
    IF pools = <<>> THEN << <<>> >>
    ELSE ProductStep(product(SubSeq(pools, 1, Len(pools) - 1)), pools[Len(pools)])

create_search_grid(space) ==
    LET values == [k \in 1..Len(SearchSpaceKeys) |-> space[SearchSpaceKeys[k]]]
        combos == product(values)
    IN  [n \in 1..Len(combos) |-> Hyperparameters(combos[n])]

----------------------------------------------------------------------------
(* split_data *)

Classes == {0, 1}

\* a dataset: row id -> value of the "target" column
Datasets == SeqsUpTo(Classes, MaxRows)

\* test_size=0.25: n_test = ceil(0.25 * n), n_train = floor(0.75 * n)
NTest(n) == (n + 3) \div 4
NTrain(n) == (3 * n) \div 4

ClassCount(y, rows, c) == Cardinality({r \in rows : y[r] = c})

ClassesOf(y, rows) == {y[r] : r \in rows}

\* the cases in which train_test_split(..., test_size=0.25, stratify=y) raises
\* ValueError: no sample, an empty train set, a class with a single member, or
\* fewer train or test rows than classes
TrainTestSplitRaises(y, rows) ==
    LET n == Cardinality(rows)
        n_classes == Cardinality(ClassesOf(y, rows))
    IN  \/ n = 0
        \/ NTrain(n) = 0
        \/ \E c \in ClassesOf(y, rows) : ClassCount(y, rows, c) < 2
        \/ NTrain(n) < n_classes
        \/ NTest(n) < n_classes

\* the partitions train_test_split can return for some shuffle: the test rows
\* are n_test of the rows and the train rows n_train of the others (the class
\* proportions that stratification keeps are not modelled; every stratified
\* outcome is among these)
TrainTestSplit(y, rows) ==
    LET n == Cardinality(rows)
    IN  UNION {{[train |-> tr, test |-> te] :
                   tr \in {t \in SUBSET (rows \ te) : Cardinality(t) = NTrain(n)}} :
               te \in {t \in SUBSET rows : Cardinality(t) = NTest(n)}}

\* the second split peeling validation off the whole dataset again
SecondSplitRowsWhole(all_rows, first_train) == all_rows

\* the rows the second train_test_split is given: X_train of the first split
SecondSplitRows(all_rows, first_train) == first_train

----------------------------------------------------------------------------
(* compare_model_results *)

\* the scan keeping the last maximum instead of the first
RECURSIVE ArgMaxLastFrom(_, _, _)
ArgMaxLastFrom(scores, i, best) ==
    IF i > Len(scores) THEN best
    ELSE ArgMaxLastFrom(scores, i + 1, IF scores[i] >= scores[best] THEN i ELSE best)

\* np.array(scores).argmax(): the index of the first occurrence of the maximum
RECURSIVE ArgMaxFrom(_, _, _)
ArgMaxFrom(scores, i, best) ==
    IF i > Len(scores) THEN best
    ELSE ArgMaxFrom(scores, i + 1, IF scores[i] > scores[best] THEN i ELSE best)

argmax(scores) == ArgMaxFrom(scores, 2, 1)

\* the scores list the loop over the models builds
Scores(ms) == [i \in DOMAIN ms |-> ms[i].score]

\* whether model.predict(X_val) raises for some model of the list
SomePredictRaises(ms) == \E i \in DOMAIN ms : ms[i].predict_raises

----------------------------------------------------------------------------
(* The task nodes of training_workflow *)

Nodes == {"get_data", "split_data", "create_search_grid", "map_task",
          "compare_model_results", "analyze_model"}

\* the dataset load_wine returns, stood in for by three rows of one class
load_wine == <<0, 0, 0>>

\* the task graph with compare_model_results not waiting for the map task
DepsWithoutFanIn(n) ==
    CASE n = "get_data" -> {}
      [] n = "split_data" -> {"get_data"}
      [] n = "create_search_grid" -> {}
      [] n = "map_task" -> {"split_data", "create_search_grid"}
      [] n = "compare_model_results" -> {"split_data"}
      [] n = "analyze_model" -> {"split_data", "compare_model_results"}

\* the nodes whose outputs a node takes as inputs
Deps(n) ==
    CASE n = "get_data" -> {}
      [] n = "split_data" -> {"get_data"}
      [] n = "create_search_grid" -> {}
      [] n = "map_task" -> {"split_data", "create_search_grid"}
      [] n = "compare_model_results" -> {"split_data", "map_task"}
      [] n = "analyze_model" -> {"split_data", "compare_model_results"}

\* a failed node fails the workflow: no further node is started
WorkflowFailed == \E n \in Nodes : node[n] = "failed"

Ready(n) ==
    /\ node[n] = "pending"
    /\ ~WorkflowFailed
    /\ \A d \in Deps(n) : node[d] = "succeeded"

Start(n) ==
    /\ Ready(n)
    /\ node' = [node EXCEPT ![n] = "running"]

Succeed(n) == node' = [node EXCEPT ![n] = "succeeded"]

Fail(n, exception) ==
    /\ node' = [node EXCEPT ![n] = "failed"]
    /\ error' = exception

StartGetData ==
    /\ Start("get_data")
    /\ UNCHANGED <<gridVars, error, splitVars, mapVars, bestVars, cacheVars>>

FinishGetData ==
    /\ node["get_data"] = "running"
    /\ data' = load_wine
    /\ Succeed("get_data")
    /\ UNCHANGED <<gridVars, error, X_train, X_val, X_test, mapVars, bestVars, cacheVars>>

StartSplitData ==
    /\ Start("split_data")
    /\ UNCHANGED <<gridVars, error, splitVars, mapVars, bestVars, cacheVars>>

\* the two successive train_test_split calls; either may raise
FinishSplitData ==
    /\ node["split_data"] = "running"
    /\ IF TrainTestSplitRaises(data, DOMAIN data)
       THEN /\ Fail("split_data", "ValueError")
            /\ UNCHANGED <<X_train, X_val, X_test>>
       ELSE \E first \in TrainTestSplit(data, DOMAIN data) :
              LET rows == SecondSplitRows(DOMAIN data, first.train)
              IN  IF TrainTestSplitRaises(data, rows)
                  THEN /\ Fail("split_data", "ValueError")
                       /\ UNCHANGED <<X_train, X_val, X_test>>
                  ELSE \E second \in TrainTestSplit(data, rows) :
                         /\ X_train' = second.train
                         /\ X_val' = second.test
                         /\ X_test' = first.test
                         /\ Succeed("split_data")
                         /\ UNCHANGED error
    /\ UNCHANGED <<gridVars, data, mapVars, bestVars, cacheVars>>

StartCreateSearchGrid ==
    /\ Start("create_search_grid")
    /\ UNCHANGED <<gridVars, error, splitVars, mapVars, bestVars, cacheVars>>

FinishCreateSearchGrid ==
    /\ node["create_search_grid"] = "running"
    /\ hyperparameters' = create_search_grid(search_space)
    /\ Succeed("create_search_grid")
    /\ UNCHANGED <<search_space, error, splitVars, mapVars, bestVars, cacheVars>>

\* map_task(partial_function)(hyperparameters=hyperparameters): one train_model
\* unit per grid element, all free to run at once
StartMapTask ==
    /\ Start("map_task")
    /\ units' = [i \in DOMAIN hyperparameters |-> [status |-> "pending", model |-> NoModel]]
    /\ UNCHANGED <<gridVars, error, splitVars, completion_order, models, bestVars, cacheVars>>

StartTrainModel(i) ==
    /\ node["map_task"] = "running"
    /\ units[i].status = "pending"
    /\ units' = [units EXCEPT ![i].status = "running"]
    /\ UNCHANGED <<gridVars, node, error, splitVars, completion_order, models, bestVars,
                   cacheVars>>

\* RandomForestClassifier(**vars(hyperparameters)).fit(...): the fitted model
\* carries its hyperparameters; the score it will reach on the validation set
\* is not decided by the hyperparameters (no random_state is set)
FinishTrainModel(i) ==
    /\ node["map_task"] = "running"
    /\ units[i].status = "running"
    /\ \E score \in 0..MaxTrainedScore :
         units' = [units EXCEPT ![i] =
                      [status |-> "succeeded",
                       model |-> [hyperparameters |-> hyperparameters[i],
                                  score |-> score, predict_raises |-> FALSE]]]
    /\ completion_order' = Append(completion_order, i)
    /\ UNCHANGED <<gridVars, node, error, splitVars, models, bestVars, cacheVars>>

\* the estimator rejects the hyperparameters or the fit raises
TrainModelRaises(i) ==
    /\ node["map_task"] = "running"
    /\ units[i].status = "running"
    /\ units' = [units EXCEPT ![i].status = "failed"]
    /\ UNCHANGED <<gridVars, node, error, splitVars, completion_order, models, bestVars,
                   cacheVars>>

Succeeded(us) == {i \in DOMAIN us : us[i].status = "succeeded"}

Failed(us) == {i \in DOMAIN us : us[i].status = "failed"}

\* map_task is called without min_successes or min_success_ratio: every unit
\* has to succeed
MinSuccesses(n) == n

\* the outputs listed in the order the units completed
MapTaskOutputsAsCompleted(us, order) == [i \in DOMAIN order |-> us[order[i]].model]

\* the output list of the map task: the output of unit i at position i
MapTaskOutputs(us, order) == [i \in DOMAIN us |-> us[i].model]

MapTaskSucceeds ==
    /\ node["map_task"] = "running"
    /\ Succeeded(units) \cup Failed(units) = DOMAIN units
    /\ Cardinality(Succeeded(units)) >= MinSuccesses(Len(units))
    /\ models' = MapTaskOutputs(units, completion_order)
    /\ Succeed("map_task")
    /\ UNCHANGED <<gridVars, error, splitVars, units, completion_order, bestVars, cacheVars>>

\* too many units failed for the map task to succeed: it fails, the units
\* still pending or running are aborted, and the failure fails the workflow
MapTaskFails ==
    /\ node["map_task"] = "running"
    /\ Len(units) - Cardinality(Failed(units)) < MinSuccesses(Len(units))
    /\ units' = [i \in DOMAIN units |->
                    IF units[i].status \in {"pending", "running"}
                    THEN [units[i] EXCEPT !.status = "aborted"]
                    ELSE units[i]]
    /\ Fail("map_task", "TrainModelFailed")
    /\ UNCHANGED <<gridVars, splitVars, completion_order, models, bestVars, cacheVars>>

StartCompareModelResults ==
    /\ Start("compare_model_results")
    /\ UNCHANGED <<gridVars, error, splitVars, mapVars, bestVars, cacheVars>>

\* the loop over the models and the selection: an exception of predict leaves
\* the loop and the task, argmax of an empty score list raises ValueError
FinishCompareModelResults ==
    /\ node["compare_model_results"] = "running"
    /\ IF SomePredictRaises(models)
       THEN /\ Fail("compare_model_results", "PredictRaised")
            /\ UNCHANGED bestVars
       ELSE IF Scores(models) = <<>>
       THEN /\ Fail("compare_model_results", "ValueError")
            /\ UNCHANGED bestVars
       ELSE /\ best_index' = argmax(Scores(models))
            /\ best_model' = models[argmax(Scores(models))]
            /\ Succeed("compare_model_results")
            /\ UNCHANGED error
    /\ UNCHANGED <<gridVars, splitVars, mapVars, cacheVars>>

StartAnalyzeModel ==
    /\ Start("analyze_model")
    /\ UNCHANGED <<gridVars, error, splitVars, mapVars, bestVars, cacheVars>>

FinishAnalyzeModel ==
    /\ node["analyze_model"] = "running"
    /\ Succeed("analyze_model")
    /\ UNCHANGED <<gridVars, error, splitVars, mapVars, bestVars, cacheVars>>

NodesPending == [n \in Nodes |-> "pending"]

\* the state before any task has run, but for the inputs
Blank ==
    /\ hyperparameters = <<>>
    /\ error = ""
    /\ X_train = {} /\ X_val = {} /\ X_test = {}
    /\ units = <<>>
    /\ completion_order = <<>>
    /\ models = <<>>
    /\ best_index = 0
    /\ best_model = NoModel
    /\ cache_store = <<>>
    /\ invocations = <<>>

----------------------------------------------------------------------------
(* create_search_grid on every search space *)

InitGrid ==
    /\ search_space \in SearchSpaces
    /\ node = NodesPending
    /\ data = <<>>
    /\ Blank

NextGrid == StartCreateSearchGrid \/ FinishCreateSearchGrid

SpecGrid == InitGrid /\ [][NextGrid]_vars

----------------------------------------------------------------------------
(* split_data on every dataset *)

DefaultSearchSpace ==
    [max_depth |-> <<50, 100>>, max_features |-> <<"None", "sqrt">>,
     n_estimators |-> <<100, 2000>>]

InitSplit ==
    /\ search_space = DefaultSearchSpace
    /\ node = [NodesPending EXCEPT !["get_data"] = "succeeded"]
    /\ data \in Datasets
    /\ Blank

NextSplit == StartSplitData \/ FinishSplitData

SpecSplit == InitSplit /\ [][NextSplit]_vars

----------------------------------------------------------------------------
(* compare_model_results on every list of models *)

\* the models compare_model_results is handed: any validation score, and
\* models whose predict raises on the validation set
ComparedModels ==
    [hyperparameters : {Hyperparameters(<<50, "None", 100>>)},
     score : 0..MaxScore, predict_raises : {FALSE}]
    \cup [hyperparameters : {Hyperparameters(<<50, "None", 100>>)},
          score : {0}, predict_raises : {TRUE}]

InitCompare ==
    /\ search_space = DefaultSearchSpace
    /\ node = [n \in Nodes |->
                  IF n \in {"compare_model_results", "analyze_model"}
                  THEN "pending" ELSE "succeeded"]
    /\ data = load_wine
    /\ hyperparameters = <<>>
    /\ error = ""
    /\ X_train = {1} /\ X_val = {2} /\ X_test = {3}
    /\ units = <<>>
    /\ completion_order = <<>>
    /\ models \in SeqsUpTo(ComparedModels, MaxModels)
    /\ best_index = 0
    /\ best_model = NoModel
    /\ cache_store = <<>>
    /\ invocations = <<>>

NextCompare == StartCompareModelResults \/ FinishCompareModelResults

SpecCompare == InitCompare /\ [][NextCompare]_vars

----------------------------------------------------------------------------
(* training_workflow *)

Prefixes(s) == {SubSeq(s, 1, k) : k \in 0..Len(s)}

\* the search spaces the workflow is run on: the default search space with
\* its candidate lists cut short, down to the empty list
WorkflowSearchSpaces ==
    {space \in [max_depth : Prefixes(DefaultSearchSpace.max_depth),
                max_features : Prefixes(DefaultSearchSpace.max_features),
                n_estimators : Prefixes(DefaultSearchSpace.n_estimators)] :
        Len(space.max_depth) * Len(space.max_features) * Len(space.n_estimators)
            <= MaxUnits}

Init ==
    /\ search_space \in WorkflowSearchSpaces
    /\ node = NodesPending
    /\ data = <<>>
    /\ Blank

Next ==
    \/ StartGetData
    \/ FinishGetData
    \/ StartSplitData
    \/ FinishSplitData
    \/ StartCreateSearchGrid
    \/ FinishCreateSearchGrid
    \/ StartMapTask
    \/ \E i \in DOMAIN units : StartTrainModel(i)
    \/ \E i \in DOMAIN units : FinishTrainModel(i)
    \/ \E i \in DOMAIN units : TrainModelRaises(i)
    \/ MapTaskSucceeds
    \/ MapTaskFails
    \/ StartCompareModelResults
    \/ FinishCompareModelResults
    \/ StartAnalyzeModel
    \/ FinishAnalyzeModel

Spec == Init /\ [][Next]_vars

----------------------------------------------------------------------------
(* The task cache: cache=cache, cache_version=cache_version on every task *)

\* caching switched off
cache_off == FALSE

cache == TRUE

cache_version == "cache-v1"

\* the tasks declared with cache=cache
CachedTasks == {"get_data", "split_data", "create_search_grid", "train_model",
                "compare_model_results", "analyze_model"}

\* contents of the inputs a task is invoked with, and of the outputs it computes
InputContents == {"in_a", "in_b"}
OutputContents == {"out_a", "out_b"}

CacheKey(t, input) == <<t, cache_version, input>>

\* one invocation of a cached task: a stored output of the same key is
\* returned without running the task; otherwise the task runs, and the output
\* it returns (not an exception) is stored under the key
InvokeTask(t, input) ==
    /\ Len(invocations) < MaxInvocations
    /\ LET key == CacheKey(t, input)
       IN  IF cache /\ key \in DOMAIN cache_store
           THEN /\ invocations' = Append(invocations,
                       [key |-> key, output |-> cache_store[key], computed |-> FALSE])
                /\ UNCHANGED cache_store
           ELSE \E out \in OutputContents \cup {"raised"} :
                  /\ invocations' = Append(invocations,
                         [key |-> key, output |-> out, computed |-> TRUE])
                  /\ cache_store' = IF cache /\ out # "raised"
                                    THEN (key :> out) @@ cache_store
                                    ELSE cache_store
    /\ UNCHANGED <<gridVars, node, error, splitVars, mapVars, bestVars>>

InitCache ==
    /\ search_space = DefaultSearchSpace
    /\ node = NodesPending
    /\ data = <<>>
    /\ Blank

NextCache == \E t \in CachedTasks, input \in InputContents : InvokeTask(t, input)

SpecCache == InitCache /\ [][NextCache]_vars

----------------------------------------------------------------------------
(* Claims about create_search_grid *)

GridDone == node["create_search_grid"] = "succeeded"

Candidates(space, k) == space[SearchSpaceKeys[k]]

AllNonEmpty(space) == \A k \in DOMAIN SearchSpaceKeys : Len(Candidates(space, k)) > 0

NoRepeatedCandidate(space) ==
    \A k \in DOMAIN SearchSpaceKeys :
        Cardinality(Range(Candidates(space, k))) = Len(Candidates(space, k))

GridLength(space) ==
    Len(space.max_depth) * Len(space.max_features) * Len(space.n_estimators)

\* the value combinations of the Cartesian product of the candidate lists
CartesianProduct(space) ==
    [max_depth : Range(space.max_depth),
     max_features : Range(space.max_features),
     n_estimators : Range(space.n_estimators)]

\* position of the combination of the i-th, j-th and k-th candidates when the
\* first-declared hyperparameter varies slowest and the last-declared fastest
SlowestFirstIndex(space, i, j, k) ==
    ((i - 1) * Len(space.max_features) + (j - 1)) * Len(space.n_estimators) + k

SlowestFirstOrder(space, grid) ==
    \A i \in DOMAIN space.max_depth, j \in DOMAIN space.max_features,
       k \in DOMAIN space.n_estimators :
        grid[SlowestFirstIndex(space, i, j, k)] =
            [max_depth |-> space.max_depth[i],
             max_features |-> space.max_features[j],
             n_estimators |-> space.n_estimators[k]]

EveryCombinationOnce(space, grid) ==
    \A c \in CartesianProduct(space) :
        Cardinality({n \in DOMAIN grid : grid[n] = c}) = 1

\* C1 as stated: for every search space with non-empty candidate lists the grid
\* has the product of the list lengths as its length, holds every combination
\* of the Cartesian product exactly once, and is in slowest-first order.
C1_GridExactlyOnce ==
    (GridDone /\ AllNonEmpty(search_space)) =>
        /\ Len(hyperparameters) = GridLength(search_space)
        /\ EveryCombinationOnce(search_space, hyperparameters)
        /\ SlowestFirstOrder(search_space, hyperparameters)

\* C1 amended: the length is the product of the list lengths and position
\* SlowestFirstIndex(i, j, k) holds the combination of the i-th, j-th and k-th
\* candidates (every index combination once, first-declared slowest); the
\* value combinations are each present exactly once when no candidate list
\* repeats a value.
C1_GridSlowestFirst ==
    (GridDone /\ AllNonEmpty(search_space)) =>
        /\ Len(hyperparameters) = GridLength(search_space)
        /\ SlowestFirstOrder(search_space, hyperparameters)
        /\ NoRepeatedCandidate(search_space) =>
               EveryCombinationOnce(search_space, hyperparameters)

C1_Witness ==
    /\ GridDone
    /\ AllNonEmpty(search_space)
    /\ NoRepeatedCandidate(search_space)
    /\ Len(hyperparameters) = 8
    /\ hyperparameters[2] # hyperparameters[1]
    /\ hyperparameters[2].max_depth = hyperparameters[1].max_depth

SomeEmptyCandidateList(space) ==
    \E k \in DOMAIN SearchSpaceKeys : Len(Candidates(space, k)) = 0

\* C6: a search space with an empty candidate list makes create_search_grid
\* fail with InvalidSearchSpace; it never returns a grid for it and no
\* train_model unit is started.
C6_EmptyCandidateListRejected ==
    (SomeEmptyCandidateList(search_space)
        /\ node["create_search_grid"] \notin {"pending", "running"}) =>
        /\ node["create_search_grid"] = "failed"
        /\ error = "InvalidSearchSpace"
        /\ units = <<>>

----------------------------------------------------------------------------
(* Claims about split_data *)

SplitDone == node["split_data"] = "succeeded"

\* C8: the partitions split_data returns are pairwise disjoint and their row
\* counts sum to the row count of the dataset: every row of the dataset lies
\* in exactly one of train, validation and test.
C8_PartitionsDisjointAndComplete ==
    SplitDone =>
        /\ X_train \cap X_val = {}
        /\ X_train \cap X_test = {}
        /\ X_val \cap X_test = {}
        /\ Cardinality(X_train) + Cardinality(X_val) + Cardinality(X_test) = Len(data)
        /\ \A r \in DOMAIN data :
               (IF r \in X_train THEN 1 ELSE 0) + (IF r \in X_val THEN 1 ELSE 0)
                   + (IF r \in X_test THEN 1 ELSE 0) = 1

C8_Witness ==
    /\ SplitDone
    /\ Len(data) = 7
    /\ ClassesOf(data, X_train) = Classes
    /\ Cardinality(X_test) = 2
    /\ Cardinality(X_val) = 2
    /\ Cardinality(X_train) = 3

----------------------------------------------------------------------------
(* Claims about compare_model_results *)

CompareDone == node["compare_model_results"] = "succeeded"

CompareFinished == node["compare_model_results"] \in {"succeeded", "failed"}

\* C2: for a non-empty list of models that all score, compare_model_results
\* returns the model at the smallest index among those with the maximum
\* validation score: no model scores higher and no earlier model scores as high.
C2_FirstMaximumSelected ==
    /\ (CompareFinished /\ models # <<>> /\ ~SomePredictRaises(models)) => CompareDone
    /\ CompareDone =>
        /\ best_index \in DOMAIN models
        /\ best_model = models[best_index]
        /\ \A j \in DOMAIN models : models[j].score <= best_model.score
        /\ \A j \in 1..(best_index - 1) : models[j].score < best_model.score

C2_Witness ==
    /\ CompareDone
    /\ best_index = 2
    /\ \E j \in DOMAIN models : j > best_index /\ models[j].score = best_model.score
    /\ \E j \in DOMAIN models : j > best_index /\ models[j].score < best_model.score

Usable(ms) == {i \in DOMAIN ms : ~ms[i].predict_raises}

\* C3: when the prediction of one model raises, the selection does not fail:
\* the model is left out and the best model is chosen among the others.
C3_ScoringFailureExcluded ==
    (CompareFinished /\ SomePredictRaises(models) /\ Usable(models) # {}) =>
        /\ CompareDone
        /\ best_index \in Usable(models)
        /\ \A j \in Usable(models) : models[j].score <= best_model.score

\* C5: given no model, compare_model_results fails with EmptyModelSet and
\* returns no best model.
C5_EmptyModelSetRaised ==
    (CompareFinished /\ models = <<>>) =>
        /\ node["compare_model_results"] = "failed"
        /\ error = "EmptyModelSet"
        /\ best_model = NoModel

----------------------------------------------------------------------------
(* Claims about training_workflow *)

UnitStarted(i) == units[i].status # "pending"

Finished(n) == node[n] \in {"succeeded", "failed"}

\* C4: when exactly one train_model unit fails and the others complete, the
\* run is not aborted: the map task does not fail and selection is reached.
C4_SingleTrainingFailureTolerated ==
    (/\ Len(units) >= 2
     /\ Cardinality(Failed(units)) = 1
     /\ Cardinality(Succeeded(units)) = Len(units) - 1
     /\ Finished("map_task")) =>
        /\ node["map_task"] = "succeeded"
        /\ ~WorkflowFailed

\* C9: no task starts before the tasks producing its inputs have finished:
\* a train_model unit only after split_data and create_search_grid,
\* compare_model_results only after every dispatched unit has completed or
\* failed, analyze_model only after compare_model_results returned the best model.
C9_DataDependencyOrder ==
    /\ node["split_data"] # "pending" => node["get_data"] = "succeeded" /\ data # <<>>
    /\ node["map_task"] # "pending" =>
           /\ node["split_data"] = "succeeded"
           /\ node["create_search_grid"] = "succeeded"
           /\ Len(units) = Len(hyperparameters)
    /\ \A i \in DOMAIN units : UnitStarted(i) =>
           /\ node["split_data"] = "succeeded"
           /\ node["create_search_grid"] = "succeeded"
    /\ node["compare_model_results"] # "pending" =>
           /\ Finished("map_task")
           /\ \A i \in DOMAIN units : units[i].status \in {"succeeded", "failed"}
    /\ node["analyze_model"] # "pending" =>
           /\ CompareDone
           /\ best_model # NoModel

C9_Witness ==
    /\ node["analyze_model"] = "succeeded"
    /\ Len(units) = 4
    /\ best_index = 3

\* C10: whatever the order in which the units start and complete, the list
\* handed to compare_model_results holds at position i the model trained for
\* grid element i, and the best model is the first of the maximum score in
\* grid order.
C10_FanOutOrderIndependent ==
    /\ node["map_task"] = "succeeded" =>
           /\ Len(models) = Len(hyperparameters)
           /\ \A i \in DOMAIN models :
                  /\ models[i] = units[i].model
                  /\ models[i].hyperparameters = hyperparameters[i]
    /\ CompareDone =>
           /\ best_model = units[best_index].model
           /\ best_model.hyperparameters = hyperparameters[best_index]
           /\ \A j \in DOMAIN units : units[j].model.score <= best_model.score
           /\ \A j \in 1..(best_index - 1) : units[j].model.score < best_model.score

C10_Witness ==
    /\ CompareDone
    /\ Len(completion_order) = 4
    /\ completion_order[1] = 4
    /\ completion_order[4] = 2
    /\ best_index = 2
    /\ units[4].model.score = best_model.score

----------------------------------------------------------------------------
(* Claims about the task cache *)

Returned(i) == invocations[i].output # "raised"

SameKeySameOutput ==
    \A i, j \in DOMAIN invocations :
        (i < j /\ invocations[i].key = invocations[j].key /\ Returned(i) /\ Returned(j)) =>
            /\ invocations[j].output = invocations[i].output
            /\ ~invocations[j].computed

EntriesKept ==
    \A k \in DOMAIN cache_store :
        k \in DOMAIN cache_store' /\ cache_store'[k] = cache_store[k]

====
